---- MODULE Spec2Model ----
(***************************************************************************)
(* A model of read.py: read_source_files (the directory walk with its      *)
(* directory pruning and file filters), format_for_sharing, and the        *)
(* __main__ block that writes source_code_output.txt.                      *)
(*                                                                         *)
(* Strings are sequences of code points, so that lower(), Path.suffix,     *)
(* startswith(), sorted() and the UTF-8 decoder are computed, not assumed. *)
(***************************************************************************)
EXTENDS Integers, Sequences, FiniteSets

VARIABLES
    fs,                  \* the files on disk below src_path: records [dir, name, bytes, readable]
    rootKind,            \* what src_path resolves to: "dir", "file" or "missing"
    entry,               \* "main": run as a script; "call": read_source_files called with arguments
    exclude_dirs,        \* the exclude_dirs of the call, after the None default
    include_extensions,  \* the include_extensions of the call, after the None default
    pc,                  \* position of the run
    stack,               \* os.walk's directories still to visit
    root,                \* os.walk's current directory, relative to src_path
    dirs,                \* the dirs list of the current directory, as the loop body leaves it
    files,               \* the files of the current directory not looked at yet
    code_files,          \* the dict being built: sequence of [key, content] in insertion order
    printed,             \* the lines printed, in order
    formatted_output,    \* the result of format_for_sharing
    outfile              \* source_code_output.txt as this run leaves it

vars == << fs, rootKind, entry, exclude_dirs, include_extensions, pc, stack, root,
           dirs, files, code_files, printed, formatted_output, outfile >>

-----------------------------------------------------------------------------
(* Bounds *)

\* most files in a generated tree
MaxFiles == 2
\* most bytes in a generated file content
MaxLen == 3

-----------------------------------------------------------------------------
(* The lists of read.py *)

\* exclude_dirs when the caller passes None
DefaultExcludeDirs ==
    { <<46,103,105,116>>,   \* .git
      <<110,111,100,101,95,109,111,100,117,108,101,115>>,   \* node_modules
      <<95,95,112,121,99,97,99,104,101,95,95>>,   \* __pycache__
      <<118,101,110,118>>,   \* venv
      <<98,117,105,108,100>>,   \* build
      <<100,105,115,116>>,   \* dist
      <<99,111,118,101,114,97,103,101>>,   \* coverage
      <<46,110,101,120,116>>,   \* .next
      <<46,99,97,99,104,101>>,   \* .cache
      <<108,105,98>>,   \* lib
      <<46,110,112,109>>,   \* .npm
      <<46,121,97,114,110>>,   \* .yarn
      <<98,111,119,101,114,95,99,111,109,112,111,110,101,110,116,115>>,   \* bower_components
      <<46,118,115,99,111,100,101>>,   \* .vscode
      <<46,105,100,101,97>>,   \* .idea
      <<46,118,115>> }   \* .vs

\* include_extensions when the caller passes None
DefaultIncludeExtensions ==
    { <<46,112,121>>,   \* .py
      <<46,106,115>>,   \* .js
      <<46,106,115,120>>,   \* .jsx
      <<46,116,115>>,   \* .ts
      <<46,116,115,120>>,   \* .tsx
      <<46,104,116,109,108>>,   \* .html
      <<46,99,115,115>>,   \* .css
      <<46,115,99,115,115>>,   \* .scss
      <<46,115,97,115,115>>,   \* .sass
      <<46,106,97,118,97>>,   \* .java
      <<46,99,112,112>>,   \* .cpp
      <<46,99>>,   \* .c
      <<46,104>>,   \* .h
      <<46,104,112,112>>,   \* .hpp
      <<46,114,98>>,   \* .rb
      <<46,112,104,112>>,   \* .php
      <<46,103,111>>,   \* .go
      <<46,114,115>>,   \* .rs
      <<46,115,119,105,102,116>>,   \* .swift
      <<46,106,115,111,110>>,   \* .json
      <<46,121,109,108>>,   \* .yml
      <<46,121,97,109,108>>,   \* .yaml
      <<46,116,111,109,108>>,   \* .toml
      <<46,109,100>>,   \* .md
      <<46,101,110,118>>,   \* .env
      <<46,103,105,116,105,103,110,111,114,101>>,   \* .gitignore
      <<46,101,115,108,105,110,116,114,99>>,   \* .eslintrc
      <<46,112,114,101,116,116,105,101,114,114,99>>,   \* .prettierrc
      <<46,98,97,98,101,108,114,99>> }   \* .babelrc

\* package management and lock files, compared with file.lower()
LockFileNames ==
    { <<112,97,99,107,97,103,101,45,108,111,99,107,46,106,115,111,110>>,   \* package-lock.json
      <<121,97,114,110,46,108,111,99,107>>,   \* yarn.lock
      <<112,111,101,116,114,121,46,108,111,99,107>>,   \* poetry.lock
      <<112,105,112,102,105,108,101,46,108,111,99,107>>,   \* pipfile.lock
      <<99,97,114,103,111,46,108,111,99,107>>,   \* cargo.lock
      <<103,111,46,115,117,109>> }   \* go.sum

\* files whose presence in a subdirectory prunes it
PackageIndicatorNames ==
    { <<112,97,99,107,97,103,101,46,106,115,111,110>>,   \* package.json
      <<115,101,116,117,112,46,112,121>>,   \* setup.py
      <<114,101,113,117,105,114,101,109,101,110,116,115,46,116,120,116>>,   \* requirements.txt
      <<67,97,114,103,111,46,116,111,109,108>>,   \* Cargo.toml
      <<103,111,46,109,111,100>> }   \* go.mod

\* "=" * 80
SeparatorWidth == 80

\* "No code files found"
NoFilesSentinel == <<78,111,32,99,111,100,101,32,102,105,108,101,115,32,102,111,117,110,100>>

-----------------------------------------------------------------------------
(* String helpers *)

\* str.lower() on one code point (ASCII letters)
LowerChar(c) == IF c \in 65..90 THEN c + 32 ELSE c

\* str.lower()
Lower(s) == [i \in 1..Len(s) |-> LowerChar(s[i])]

\* str.rfind('.'), 1-based, 0 when there is no dot
RFindDot(s) ==
    LET hits == {i \in 1..Len(s) : s[i] = 46}
    IN  IF hits = {} THEN 0 ELSE CHOOSE i \in hits : \A j \in hits : j <= i

\* Path.suffix: the last dot and what follows, unless the dot leads or ends the name
Suffix(name) ==
    LET i == RFindDot(name)
    IN  IF 1 < i /\ i < Len(name) THEN SubSeq(name, i, Len(name)) ELSE << >>

\* str.startswith
StartsWith(s, p) == Len(p) <= Len(s) /\ SubSeq(s, 1, Len(p)) = p

\* comparison of two strings as Python compares str: by code point, a prefix first
RECURSIVE StrLess(_, _)
StrLess(a, b) ==
    IF b = << >> THEN FALSE
    ELSE IF a = << >> THEN TRUE
    ELSE IF a[1] # b[1] THEN a[1] < b[1]
    ELSE StrLess(Tail(a), Tail(b))

\* n copies of the code point c
Repeat(c, n) == [i \in 1..n |-> c]

\* str(path) of the path components, joined with "/"
RECURSIVE JoinPath(_)
JoinPath(parts) ==
    IF parts = << >> THEN << >>
    ELSE IF Len(parts) = 1 THEN parts[1]
    ELSE parts[1] \o <<47>> \o JoinPath(Tail(parts))

-----------------------------------------------------------------------------
(* The library calls of the file loop *)

\* mimetypes' table, for the extensions the trees below use
TypesMap(ext) ==
    CASE ext = <<46,112,121>>          -> <<116,101,120,116,47,120,45,112,121,116,104,111,110>>   \* .py   text/x-python
      [] ext = <<46,109,100>>          -> <<116,101,120,116,47,109,97,114,107,100,111,119,110>>   \* .md   text/markdown
      [] ext = <<46,106,115,111,110>>  -> <<97,112,112,108,105,99,97,116,105,111,110,47,106,115,111,110>>   \* .json application/json
      [] OTHER                         -> << >>   \* None

\* mimetypes.guess_type(str(file_path))[0]: by extension, ignoring its case
GuessType(name) == TypesMap(Lower(Suffix(name)))

\* the codec behind open(..., encoding='utf-8'): [ok, text], ok FALSE for UnicodeDecodeError
IsCont(b) == b \in 128..191

RECURSIVE Utf8Decode(_)
Utf8Decode(b) ==
    IF b = << >> THEN [ok |-> TRUE, text |-> << >>]
    ELSE
      LET b1 == b[1]
          n  == Len(b)
          width ==
              IF b1 < 128 THEN 1
              ELSE IF b1 \in 194..223 /\ n >= 2 /\ IsCont(b[2]) THEN 2
              ELSE IF b1 \in 224..239 /\ n >= 3 /\ IsCont(b[2]) /\ IsCont(b[3])
                      /\ (b1 = 224 => b[2] >= 160) /\ (b1 = 237 => b[2] <= 159) THEN 3
              ELSE IF b1 \in 240..244 /\ n >= 4 /\ IsCont(b[2]) /\ IsCont(b[3]) /\ IsCont(b[4])
                      /\ (b1 = 240 => b[2] >= 144) /\ (b1 = 244 => b[2] <= 143) THEN 4
              ELSE 0
          cp ==
              CASE width = 1 -> b1
                [] width = 2 -> (b1 - 192) * 64 + (b[2] - 128)
                [] width = 3 -> (b1 - 224) * 4096 + (b[2] - 128) * 64 + (b[3] - 128)
                [] width = 4 -> (b1 - 240) * 262144 + (b[2] - 128) * 4096
                                  + (b[3] - 128) * 64 + (b[4] - 128)
                [] OTHER -> 0
          rest == IF width = 0 THEN [ok |-> FALSE, text |-> << >>]
                  ELSE Utf8Decode(SubSeq(b, width + 1, n))
      IN  IF width = 0 \/ ~rest.ok THEN [ok |-> FALSE, text |-> << >>]
          ELSE [ok |-> TRUE, text |-> <<cp>> \o rest.text]

\* text mode with newline=None (open's default): "\r\n" and "\r" are read as "\n"
RECURSIVE UniversalNewlines(_)
UniversalNewlines(t) ==
    IF t = << >> THEN << >>
    ELSE IF t[1] = 13 /\ Len(t) >= 2 /\ t[2] = 10
         THEN <<10>> \o UniversalNewlines(SubSeq(t, 3, Len(t)))
    ELSE IF t[1] = 13 THEN <<10>> \o UniversalNewlines(Tail(t))
    ELSE <<t[1]>> \o UniversalNewlines(Tail(t))

\* what f.read() returns for a file opened with open(file_path, 'r', encoding='utf-8')
ReadText(b) == UniversalNewlines(Utf8Decode(b).text)

-----------------------------------------------------------------------------
(* The file system below src_path *)

File(d, n, b, r) == [dir |-> d, name |-> n, bytes |-> b, readable |-> r]

\* the file of directory d named n
FileAt(d, n) == CHOOSE f \in fs : f.dir = d /\ f.name = n

\* the names of the files directly in directory d (os.walk's files)
FileNamesIn(d) == {f.name : f \in {g \in fs : g.dir = d}}

\* the names of the subdirectories directly in directory d (os.walk's dirs)
SubDirNames(d) ==
    {f.dir[Len(d) + 1] :
        f \in {g \in fs : Len(g.dir) > Len(d) /\ SubSeq(g.dir, 1, Len(d)) = d}}

\* the orders in which a directory listing may come
Listings(S) ==
    {s \in [1..Cardinality(S) -> S] : \A i, j \in 1..Cardinality(S) : s[i] = s[j] => i = j}

\* str(file_path.relative_to(src_path))
RelativePath(d, n) == JoinPath(d \o <<n>>)

-----------------------------------------------------------------------------
(* read_source_files: the loop body *)

\* faulty variant of FilterExcluded: the exclusion is not applied
KeepAllDirs(ds) == ds

\* dirs[:] = [d for d in dirs if d not in exclude_dirs]
FilterExcluded(ds) == SelectSeq(ds, LAMBDA d : d \notin exclude_dirs)

\* any(p.exists() for p in package_indicators), for the subdirectory at path d
HasPackageIndicator(d) == \E n \in PackageIndicatorNames : n \in FileNamesIn(d)

\* list.remove(x): drops the first occurrence
RemoveFirst(ds, x) ==
    LET hits == {i \in 1..Len(ds) : ds[i] = x}
        k == CHOOSE i \in hits : \A j \in hits : i <= j
    IN  IF hits = {} THEN ds
        ELSE SubSeq(ds, 1, k - 1) \o SubSeq(ds, k + 1, Len(ds))

\* for dir in dirs[:]: if any(...): dirs.remove(dir) -- the loop runs over the copy
RECURSIVE RemovePackageLoop(_, _, _, _)
RemovePackageLoop(top, copy, i, ds) ==
    IF i > Len(copy) THEN ds
    ELSE IF HasPackageIndicator(top \o <<copy[i]>>)
         THEN RemovePackageLoop(top, copy, i + 1, RemoveFirst(ds, copy[i]))
         ELSE RemovePackageLoop(top, copy, i + 1, ds)

\* faulty variant of RemovePackageDirs: the loop runs over the list it removes
\* from, so the element after a removed one is skipped
RECURSIVE RemovePackageLoopLive(_, _, _)
RemovePackageLoopLive(top, i, ds) ==
    IF i > Len(ds) THEN ds
    ELSE IF HasPackageIndicator(top \o <<ds[i]>>)
         THEN RemovePackageLoopLive(top, i + 1, RemoveFirst(ds, ds[i]))
         ELSE RemovePackageLoopLive(top, i + 1, ds)

RemovePackageDirsLive(top, ds) == RemovePackageLoopLive(top, 1, ds)

\* the whole pruning loop of lines 47-56
RemovePackageDirs(top, ds) == RemovePackageLoop(top, ds, 1, ds)

\* faulty variant of IsLockFile: the lock-file check is left out
NeverLockFile(name) == FALSE

\* file.lower() in ['package-lock.json', ...]
IsLockFile(name) == Lower(name) \in LockFileNames

\* file_path.suffix.lower() in include_extensions
SuffixIncluded(name) == Lower(Suffix(name)) \in include_extensions

\* mime_type and not mime_type.startswith('text/')
IsNonText(name) ==
    LET mime_type == GuessType(name)
    IN  mime_type # << >> /\ ~StartsWith(mime_type, <<116,101,120,116,47>>)

\* dict item assignment: an existing key keeps its place
Put(d, k, v) ==
    IF \E i \in 1..Len(d) : d[i].key = k
    THEN [i \in 1..Len(d) |-> IF d[i].key = k THEN [key |-> k, content |-> v] ELSE d[i]]
    ELSE Append(d, [key |-> k, content |-> v])

Keys(d) == {d[i].key : i \in 1..Len(d)}

Get(d, k) == d[CHOOSE i \in 1..Len(d) : d[i].key = k].content

-----------------------------------------------------------------------------
(* format_for_sharing *)

\* the order of sorted() on (filepath, content) tuples
ItemLess(a, b) ==
    \/ StrLess(a.key, b.key)
    \/ a.key = b.key /\ StrLess(a.content, b.content)

RECURSIVE Insert(_, _)
Insert(sorted, x) ==
    IF sorted = << >> THEN <<x>>
    ELSE IF ItemLess(x, sorted[1]) THEN <<x>> \o sorted
    ELSE <<sorted[1]>> \o Insert(Tail(sorted), x)

RECURSIVE SortItems(_)
SortItems(d) ==
    IF d = << >> THEN << >> ELSE Insert(SortItems(SubSeq(d, 1, Len(d) - 1)), d[Len(d)])

\* faulty variant of SortedItems: code_files.items() in insertion order
UnsortedItems(d) == d

\* sorted(code_files.items())
SortedItems(d) == SortItems(d)

\* the three strings the loop appends for one entry
Entry(filepath, content) ==
    <<10>> \o <<61,61,61,32>> \o filepath \o <<32,61,61,61>> \o <<10>>
    \o content
    \o <<10>> \o Repeat(61, SeparatorWidth) \o <<10>>

RECURSIVE JoinEntries(_)
JoinEntries(items) ==
    IF items = << >> THEN << >>
    ELSE Entry(items[1].key, items[1].content) \o JoinEntries(Tail(items))

format_for_sharing(d) ==
    IF d = << >> THEN NoFilesSentinel ELSE JoinEntries(SortedItems(d))

-----------------------------------------------------------------------------
(* The runs checked: trees, file contents and arguments, drawn from bounded sets *)

\* directories a generated tree may have files in
DirPaths ==
    { << >>,
      << <<115,117,98>> >>,                     \* sub
      << <<112,107,103>> >>,                    \* pkg
      << <<115,117,98>>, <<108,105,98>> >>,     \* sub/lib
      << <<115,117,98>>, <<112,107,103>> >> }   \* sub/pkg

\* file names a generated tree may use
FileNames ==
    { <<97,46,112,121>>,                                  \* a.py
      <<66,46,80,89>>,                                    \* B.PY
      <<115,101,116,117,112,46,112,121>>,                 \* setup.py
      <<112,97,99,107,97,103,101,46,106,115,111,110>>,    \* package.json
      <<89,97,114,110,46,108,111,99,107>> }               \* Yarn.lock

\* bytes a generated content is made of: LF, CR, "x", and the two bytes of U+00E9
Bytes == {10, 13, 120, 195, 169}

RECURSIVE BytesUpTo(_)
BytesUpTo(n) ==
    IF n = 0 THEN {<< >>}
    ELSE LET shorter == BytesUpTo(n - 1)
         IN  shorter \cup {Append(b, x) : b \in shorter, x \in Bytes}

RECURSIVE SubsetsUpTo(_, _)
SubsetsUpTo(S, n) ==
    IF n = 0 THEN {{}}
    ELSE LET smaller == SubsetsUpTo(S, n - 1)
         IN  smaller \cup {T \cup {x} : T \in smaller, x \in S}

\* trees of readable files with content "x", at most MaxFiles of them
ShapeTrees ==
    SubsetsUpTo({File(d, n, <<120>>, TRUE) : d \in DirPaths, n \in FileNames}, MaxFiles)

\* trees of two files whose content and readability vary
ContentTrees ==
    { { File(<< >>, <<97,46,112,121>>, b1, r1),
        File(<< <<115,117,98>> >>, <<99,46,109,100>>, b2, r2) } :
        b1 \in BytesUpTo(MaxLen), r1 \in BOOLEAN, b2 \in {<<120>>, <<169>>}, r2 \in BOOLEAN }

\* the ways read_source_files is entered
Configs ==
    { [entry |-> "main", exclude_dirs |-> DefaultExcludeDirs,
       include_extensions |-> DefaultIncludeExtensions],
      [entry |-> "call", exclude_dirs |-> { <<112,107,103>> },
       include_extensions |-> DefaultIncludeExtensions],
      [entry |-> "call", exclude_dirs |-> DefaultExcludeDirs,
       include_extensions |-> { <<46,112,121>>, <<46,108,111,99,107>> }],   \* ['.py', '.lock']
      [entry |-> "call", exclude_dirs |-> DefaultExcludeDirs,
       include_extensions |-> { <<46,80,89>> }] }                          \* ['.PY']

MainConfig == CHOOSE c \in Configs : c.entry = "main"

Start(tree, kind, c) ==
    /\ fs = tree
    /\ rootKind = kind
    /\ entry = c.entry
    /\ exclude_dirs = c.exclude_dirs
    /\ include_extensions = c.include_extensions
    /\ pc = "start"
    /\ stack = << >>
    /\ root = << >>
    /\ dirs = << >>
    /\ files = {}
    /\ code_files = << >>
    /\ printed = << >>
    /\ formatted_output = << >>
    /\ outfile = [touched |-> FALSE, data |-> << >>]

Init ==
    \/ \E tree \in ShapeTrees, c \in Configs : Start(tree, "dir", c)
    \/ \E tree \in ContentTrees : Start(tree, "dir", MainConfig)
    \/ \E kind \in {"file", "missing"}, c \in Configs : Start({}, kind, c)

-----------------------------------------------------------------------------
(* read_source_files *)

walkVars == << stack, root, dirs, files >>
envVars == << fs, rootKind, entry, exclude_dirs, include_extensions >>

\* an exception leaving read_source_files or the body of the try in __main__:
\* the script prints "Error: ..." and ends; a caller of the function sees it raised
Raise(what) ==
    IF entry = "main"
    THEN /\ pc' = "done"
         /\ printed' = Append(printed, [kind |-> "Error", what |-> what])
    ELSE /\ pc' = "raised"
         /\ UNCHANGED printed

\* if not src_path.exists(): raise FileNotFoundError
RootNotFound ==
    /\ pc = "start"
    /\ rootKind = "missing"
    /\ Raise("FileNotFoundError")
    /\ UNCHANGED << envVars, walkVars, code_files, formatted_output, outfile >>

\* faulty variant of BeginWalk: the walk starts without the exists() check
BeginWalkUnchecked ==
    /\ pc = "start"
    /\ pc' = "walk"
    /\ stack' = << << >> >>
    /\ UNCHANGED << envVars, root, dirs, files, code_files, printed,
                    formatted_output, outfile >>

\* src_path exists: os.walk(src_path) starts
BeginWalk ==
    /\ pc = "start"
    /\ rootKind # "missing"
    /\ pc' = "walk"
    /\ stack' = << << >> >>
    /\ UNCHANGED << envVars, root, dirs, files, code_files, printed,
                    formatted_output, outfile >>

\* os.walk cannot list src_path because it is a file: the error is ignored (onerror is None)
WalkNotADirectory ==
    /\ pc = "walk"
    /\ stack # << >>
    /\ rootKind = "file"
    /\ stack' = Tail(stack)
    /\ UNCHANGED << envVars, pc, root, dirs, files, code_files, printed,
                    formatted_output, outfile >>

\* os.walk yields the next directory; the loop body prunes its dirs
WalkDir ==
    /\ pc = "walk"
    /\ stack # << >>
    /\ rootKind = "dir"
    /\ \E listing \in Listings(SubDirNames(Head(stack))) :
          dirs' = RemovePackageDirs(Head(stack), FilterExcluded(listing))
    /\ root' = Head(stack)
    /\ files' = FileNamesIn(Head(stack))
    /\ stack' = Tail(stack)
    /\ pc' = "files"
    /\ UNCHANGED << envVars, code_files, printed, formatted_output, outfile >>

NextFile(file) ==
    /\ pc = "files"
    /\ file \in files
    /\ files' = files \ {file}
    /\ UNCHANGED << envVars, pc, stack, root, dirs, formatted_output, outfile >>

\* the lock-file check: continue
SkipLockFile ==
    \E file \in files :
        /\ NextFile(file)
        /\ IsLockFile(file)
        /\ UNCHANGED << code_files, printed >>

\* the extension is not in include_extensions: nothing is done
SkipExtension ==
    \E file \in files :
        /\ NextFile(file)
        /\ ~IsLockFile(file)
        /\ ~SuffixIncluded(file)
        /\ UNCHANGED << code_files, printed >>

\* the mime type is known and not text: continue
SkipNonText ==
    \E file \in files :
        /\ NextFile(file)
        /\ ~IsLockFile(file)
        /\ SuffixIncluded(file)
        /\ IsNonText(file)
        /\ UNCHANGED << code_files, printed >>

\* faulty variant of PrintWarning: the handler prints nothing
NoWarning(kind, file) == UNCHANGED printed

\* the print of an except clause of the file loop, naming file_path
PrintWarning(kind, file) ==
    printed' = Append(printed, [kind |-> kind, what |-> RelativePath(root, file)])

\* the file reaches the try block
Candidate(file) == ~IsLockFile(file) /\ SuffixIncluded(file) /\ ~IsNonText(file)

\* the file is read and stored under its relative path
ReadFile ==
    \E file \in files :
        /\ NextFile(file)
        /\ Candidate(file)
        /\ FileAt(root, file).readable
        /\ Utf8Decode(FileAt(root, file).bytes).ok
        /\ code_files' = Put(code_files, RelativePath(root, file),
                             ReadText(FileAt(root, file).bytes))
        /\ UNCHANGED printed

\* except UnicodeDecodeError
ReadDecodeError ==
    \E file \in files :
        /\ NextFile(file)
        /\ Candidate(file)
        /\ FileAt(root, file).readable
        /\ ~Utf8Decode(FileAt(root, file).bytes).ok
        /\ PrintWarning("Warning: Could not read", file)
        /\ UNCHANGED code_files

\* except Exception: open() fails
ReadOtherError ==
    \E file \in files :
        /\ NextFile(file)
        /\ Candidate(file)
        /\ ~FileAt(root, file).readable
        /\ PrintWarning("Error reading", file)
        /\ UNCHANGED code_files

\* the files of the directory are done: os.walk queues the dirs that are left
EndFiles ==
    /\ pc = "files"
    /\ files = {}
    /\ stack' = [i \in 1..Len(dirs) |-> root \o <<dirs[i]>>] \o stack
    /\ pc' = "walk"
    /\ UNCHANGED << envVars, root, dirs, files, code_files, printed,
                    formatted_output, outfile >>

\* return code_files
Return ==
    /\ pc = "walk"
    /\ stack = << >>
    /\ pc' = "returned"
    /\ UNCHANGED << envVars, walkVars, code_files, printed, formatted_output, outfile >>

-----------------------------------------------------------------------------
(* format_for_sharing and __main__ *)

\* formatted_output = format_for_sharing(code_files)
Format ==
    /\ pc = "returned"
    /\ formatted_output' = format_for_sharing(code_files)
    /\ pc' = "formatted"
    /\ UNCHANGED << envVars, walkVars, code_files, printed, outfile >>

\* open(output_file, 'w', encoding='utf-8') creates or truncates the file
OpenOutput ==
    /\ pc = "formatted"
    /\ entry = "main"
    /\ outfile' = [touched |-> TRUE, data |-> << >>]
    /\ pc' = "opened"
    /\ UNCHANGED << envVars, walkVars, code_files, printed, formatted_output >>

\* open() raises (the directory is not writable)
OpenOutputFails ==
    /\ pc = "formatted"
    /\ entry = "main"
    /\ Raise("OSError")
    /\ UNCHANGED << envVars, walkVars, code_files, formatted_output, outfile >>

\* f.write(formatted_output), the file is closed, the two lines of success are printed
WriteOutput ==
    /\ pc = "opened"
    /\ outfile' = [touched |-> TRUE, data |-> formatted_output]
    /\ printed' = printed \o << [kind |-> "Successfully wrote", what |-> "source_code_output.txt"],
                                [kind |-> "Total files processed", what |-> Len(code_files)] >>
    /\ pc' = "done"
    /\ UNCHANGED << envVars, walkVars, code_files, formatted_output >>

\* f.write or the close raises (the disk is full): some leading part was written
WriteOutputFails ==
    /\ pc = "opened"
    /\ \E n \in {0, Len(formatted_output) \div 2} :
          outfile' = [touched |-> TRUE, data |-> SubSeq(formatted_output, 1, n)]
    /\ Raise("OSError")
    /\ UNCHANGED << envVars, walkVars, code_files, formatted_output >>

Next ==
    \/ RootNotFound
    \/ BeginWalk
    \/ WalkNotADirectory
    \/ WalkDir
    \/ SkipLockFile
    \/ SkipExtension
    \/ SkipNonText
    \/ ReadFile
    \/ ReadDecodeError
    \/ ReadOtherError
    \/ EndFiles
    \/ Return
    \/ Format
    \/ OpenOutput
    \/ OpenOutputFails
    \/ WriteOutput
    \/ WriteOutputFails

Spec == Init /\ [][Next]_vars

-----------------------------------------------------------------------------
(* What the claims speak of, stated on the tree and not on the walk *)

\* read_source_files has returned its mapping
Returned == pc \in {"returned", "formatted", "opened", "done"} /\ rootKind # "missing"

\* the key a file would have
KeyOf(f) == RelativePath(f.dir, f.name)

\* some directory on the way from src_path to the file has an excluded basename
BelowExcluded(f) == \E k \in 1..Len(f.dir) : f.dir[k] \in exclude_dirs

\* some directory on the way from src_path to the file holds a package indicator
BelowPackage(f) ==
    \E k \in 1..Len(f.dir) : \E g \in fs :
        g.dir = SubSeq(f.dir, 1, k) /\ g.name \in PackageIndicatorNames

\* the file's name, lower-cased, is one of the lock-file names
LockNamed(f) == \E n \in LockFileNames : Len(n) = Len(f.name) /\
                    \A i \in 1..Len(n) : n[i] = LowerChar(f.name[i])

\* the file's extension, lower-cased, is an entry of include_extensions as given
ExtensionListed(f) == \E e \in include_extensions : e = Lower(Suffix(f.name))

\* the file's extension equals an entry of include_extensions when case is ignored
ExtensionMatchesIgnoringCase(f) ==
    \E e \in include_extensions : Lower(e) = Lower(Suffix(f.name))

\* the file is classified, and as something other than text/...
NonTextType(f) ==
    LET t == GuessType(f.name)
    IN  Len(t) > 0 /\ (Len(t) < 5 \/ SubSeq(t, 1, 5) # <<116,101,120,116,47>>)

\* the file gets as far as being read
PassesFilters(f) ==
    ~BelowExcluded(f) /\ ~BelowPackage(f) /\ ~LockNamed(f) /\ ExtensionListed(f)
    /\ ~NonTextType(f)

\* the read of the file succeeds
ReadSucceeds(f) == f.readable /\ Utf8Decode(f.bytes).ok

\* the lines printed by the except clauses of the file loop that name a path
LinesNaming(path) ==
    {i \in 1..Len(printed) :
        /\ printed[i].kind \in {"Warning: Could not read", "Error reading"}
        /\ printed[i].what = path}

-----------------------------------------------------------------------------
\* C1: once read_source_files has returned, every file that passed the filters
\* and whose read failed is absent from the mapping and has exactly one printed
\* line naming its path (the decode warning or the read error), every file
\* that passed the filters and read successfully is a key, and the walk of an
\* existing directory never raises and is never stuck before it returns.
C1_FailureIsolation ==
    /\ Returned =>
          \A f \in fs :
              /\ PassesFilters(f) /\ ~ReadSucceeds(f) =>
                    /\ KeyOf(f) \notin Keys(code_files)
                    /\ Cardinality(LinesNaming(KeyOf(f))) = 1
                    /\ \A i \in LinesNaming(KeyOf(f)) :
                          printed[i].kind = IF f.readable THEN "Warning: Could not read"
                                            ELSE "Error reading"
              /\ PassesFilters(f) /\ ReadSucceeds(f) => KeyOf(f) \in Keys(code_files)
    /\ rootKind = "dir" => pc # "raised"
    /\ rootKind = "dir" =>
          \A i \in 1..Len(printed) :
              printed[i].kind = "Error" => printed[i].what # "FileNotFoundError"
    /\ pc \in {"walk", "files"} => ENABLED Next

\* a file that fails to decode has its one warning, next to a file that was read
C1_Witness ==
    /\ pc = "returned"
    /\ \E f, g \in fs :
          /\ PassesFilters(f) /\ f.readable /\ ~Utf8Decode(f.bytes).ok
          /\ PassesFilters(g) /\ ReadSucceeds(g)
          /\ KeyOf(g) \in Keys(code_files)
          /\ Cardinality(LinesNaming(KeyOf(f))) = 1

-----------------------------------------------------------------------------
\* C2: when the root path does not exist nothing is walked, the output file is
\* never opened or written, the script ends having printed the one line
\* "Error: ..." for the FileNotFoundError, and the exception does not escape
\* the script.
C2_MissingRootIsFatal ==
    rootKind = "missing" =>
        /\ pc \in {"start", "done", "raised"}
        /\ stack = << >> /\ code_files = << >>
        /\ outfile.touched = FALSE
        /\ entry = "main" => pc # "raised"
        /\ pc = "raised" => entry = "call"
        /\ pc = "done" => printed = << [kind |-> "Error", what |-> "FileNotFoundError"] >>

C2_Witness ==
    /\ rootKind = "missing" /\ entry = "main" /\ pc = "done"
    /\ Len(printed) = 1 /\ outfile.touched = FALSE

-----------------------------------------------------------------------------
\* C3: read_source_files never returns a mapping for a root that is not an
\* existing directory (a regular file included).
C3_NotFoundUnlessDirectory ==
    rootKind # "dir" => pc \notin {"returned", "formatted", "opened"}

-----------------------------------------------------------------------------
\* C4: the walk never visits or queues a directory that lies in or below a
\* directory whose basename is in exclude_dirs, and no file below such a
\* directory is ever a key of the mapping.
C4_ExcludedPruned ==
    /\ \A f \in fs : BelowExcluded(f) => KeyOf(f) \notin Keys(code_files)
    /\ \A k \in 1..Len(root) : root[k] \notin exclude_dirs
    /\ \A i \in 1..Len(stack) : \A k \in 1..Len(stack[i]) : stack[i][k] \notin exclude_dirs

\* an excluded directory two levels down holds a file that is otherwise collected
C4_Witness ==
    /\ pc = "returned"
    /\ code_files # << >>
    /\ \E f \in fs :
          /\ Len(f.dir) = 2 /\ f.dir[1] \notin exclude_dirs /\ f.dir[2] \in exclude_dirs
          /\ ~BelowPackage(f) /\ ~LockNamed(f) /\ ExtensionListed(f) /\ ~NonTextType(f)
          /\ ReadSucceeds(f)

-----------------------------------------------------------------------------
\* C5: no file in or below a subdirectory that directly holds a package
\* indicator is ever a key of the mapping, and the walk never visits or queues
\* such a subdirectory; this for every one of several sibling subdirectories.
C5_PackagePruned ==
    /\ \A f \in fs : BelowPackage(f) => KeyOf(f) \notin Keys(code_files)
    /\ root # << >> => ~HasPackageIndicator(root)
    /\ \A i \in 1..Len(stack) : stack[i] # << >> => ~HasPackageIndicator(stack[i])

\* two sibling subdirectories, neither excluded, each with an indicator that
\* would itself be collected
C5_Witness ==
    /\ pc = "returned"
    /\ \E f, g \in fs :
          /\ Len(f.dir) = 1 /\ Len(g.dir) = 1 /\ f.dir # g.dir
          /\ f.name \in PackageIndicatorNames /\ g.name \in PackageIndicatorNames
          /\ ~BelowExcluded(f) /\ ~BelowExcluded(g)
          /\ ExtensionListed(f) /\ ~NonTextType(f) /\ ExtensionListed(g) /\ ~NonTextType(g)

-----------------------------------------------------------------------------
-----------------------------------------------------------------------------
\* C7: a file is a key only if its extension equals an entry of
\* include_extensions when case is ignored, and a file whose extension equals
\* an entry when case is ignored is not stopped by the extension check: if it
\* lies in no pruned directory, is no lock file, is not of a non-text type and
\* can be read, it is a key.
C7_ExtensionGateIgnoresCase ==
    Returned =>
        \A f \in fs :
            /\ KeyOf(f) \in Keys(code_files) => ExtensionMatchesIgnoringCase(f)
            /\ ( /\ ExtensionMatchesIgnoringCase(f)
                 /\ ~BelowExcluded(f) /\ ~BelowPackage(f) /\ ~LockNamed(f)
                 /\ ~NonTextType(f) /\ ReadSucceeds(f) )
               => KeyOf(f) \in Keys(code_files)

-----------------------------------------------------------------------------
\* C8: the output of format_for_sharing is the sentinel, which is not empty,
\* for the empty mapping; otherwise it is the blocks of the entries in strictly
\* ascending order of relative path, each block being newline, "=== ", the
\* path, " ===", newline, the content, newline, 80 "=" and newline; and
\* formatting leaves the mapping as it was.
BlockOf(k) ==
    <<10, 61, 61, 61, 32>> \o k \o <<32, 61, 61, 61, 10>>
    \o Get(code_files, k)
    \o <<10>> \o [i \in 1..80 |-> 61] \o <<10>>

RECURSIVE Blocks(_)
Blocks(ks) == IF ks = << >> THEN << >> ELSE BlockOf(ks[1]) \o Blocks(Tail(ks))

Ascending(ks) == \A i \in 1..(Len(ks) - 1) : StrLess(ks[i], ks[i + 1])

C8_FormatState ==
    pc \in {"formatted", "opened", "done"} /\ rootKind # "missing" =>
        IF code_files = << >>
        THEN /\ formatted_output = NoFilesSentinel
             /\ formatted_output # << >>
        ELSE \E ks \in Listings(Keys(code_files)) :
                /\ Ascending(ks)
                /\ formatted_output = Blocks(ks)

C8_Format == [] C8_FormatState /\ [][pc = "returned" => code_files' = code_files]_vars

\* a mapping of two entries inserted in descending order has been formatted
C8_Witness ==
    /\ pc = "formatted"
    /\ Len(code_files) >= 2
    /\ StrLess(code_files[2].key, code_files[1].key)

-----------------------------------------------------------------------------
\* C9: a run of the script that ends having reported an error has neither
\* created nor overwritten the output file, and the output file is touched
\* only by a run that reports success.
Failed == \E i \in 1..Len(printed) : printed[i].kind = "Error"
Succeeded == \E i \in 1..Len(printed) : printed[i].kind = "Successfully wrote"

C9_FailureLeavesNoOutput ==
    entry = "main" /\ pc = "done" =>
        /\ Failed => outfile.touched = FALSE
        /\ outfile.touched => Succeeded

-----------------------------------------------------------------------------
\* C10: the content stored for a file is its bytes decoded as UTF-8, code
\* point for code point.
C10_ContentFidelity ==
    \A f \in fs :
        KeyOf(f) \in Keys(code_files) => Get(code_files, KeyOf(f)) = Utf8Decode(f.bytes).text

====
